---- MODULE Spec2Model ----
(***************************************************************************)
(* Model of src/src/ALE_1D.py: the two 1D ALE estimators                   *)
(* aleplot_1D_continuous and aleplot_1D_discrete.                          *)
(*                                                                         *)
(* Real numbers (pandas float64 cells) are modelled as exact rationals     *)
(* <<numerator, denominator>> in lowest terms with a positive denominator; *)
(* NaN is the pair <<0, 0>> and is absorbing for every arithmetic          *)
(* operation, as in IEEE arithmetic.  Data frames live in a heap `frames`  *)
(* indexed by object identity, so that copying and aliasing differ.        *)
(***************************************************************************)
EXTENDS Integers, Sequences, FiniteSets, TLC

(* ------------------------------ bounds --------------------------------- *)
\* largest number of rows of the caller's table X
MaxRows == 3
\* largest grid_size tried
MaxGrid == 2
\* the studied feature takes integer values in -1..MaxVal
MaxVal == 2
\* largest half-width the confidence-interval provider returns
MaxHalfWidth == 1

Vals == (-1)..MaxVal

(* ------------------------- rational arithmetic ------------------------- *)
RECURSIVE Gcd(_, _)
Gcd(a, b) == IF b = 0 THEN a ELSE Gcd(b, a % b)

Abs(a) == IF a < 0 THEN -a ELSE a

NaN == <<0, 0>>

IsNaN(q) == q[2] = 0

\* lowest terms, positive denominator; a zero denominator is NaN
Norm(n, d) ==
    IF d = 0 THEN NaN
    ELSE LET g == Gcd(Abs(n), Abs(d))
             s == IF d < 0 THEN -1 ELSE 1
         IN  <<(s * n) \div g, (s * d) \div g>>

Q(i) == <<i, 1>>

Zero == Q(0)

RAdd(p, q) == Norm(p[1] * q[2] + q[1] * p[2], p[2] * q[2])

RSub(p, q) == Norm(p[1] * q[2] - q[1] * p[2], p[2] * q[2])

RMul(p, q) == Norm(p[1] * q[1], p[2] * q[2])

\* p / q; only 0/0 arises in the code paths modelled (it gives NaN)
RDiv(p, q) == IF IsNaN(p) \/ IsNaN(q) THEN NaN ELSE Norm(p[1] * q[2], p[2] * q[1])

\* comparisons are FALSE when an operand is NaN
RLe(p, q) == ~IsNaN(p) /\ ~IsNaN(q) /\ p[1] * q[2] <= q[1] * p[2]

RLt(p, q) == ~IsNaN(p) /\ ~IsNaN(q) /\ p[1] * q[2] < q[1] * p[2]

(* --------------------------- sequence helpers -------------------------- *)
Range(s) == {s[i] : i \in 1..Len(s)}

Min(S) == CHOOSE m \in S : \A x \in S : m <= x

Max(S) == CHOOSE m \in S : \A x \in S : x <= m

\* the elements of a finite set of integers in ascending order
RECURSIVE SortedSeq(_)
SortedSeq(S) == IF S = {} THEN <<>> ELSE <<Min(S)>> \o SortedSeq(S \ {Min(S)})

\* a sequence of integers sorted ascending, duplicates kept
RECURSIVE SortValues(_)
SortValues(s) ==
    IF s = <<>> THEN <<>>
    ELSE LET m == Min(Range(s))
             i == CHOOSE j \in 1..Len(s) : s[j] = m
         IN  <<m>> \o SortValues(SubSeq(s, 1, i - 1) \o SubSeq(s, i + 1, Len(s)))

RECURSIVE RSum(_)
RSum(s) == IF s = <<>> THEN Zero ELSE RAdd(s[1], RSum(Tail(s)))

RECURSIVE ISum(_)
ISum(s) == IF s = <<>> THEN 0 ELSE s[1] + ISum(Tail(s))

SelectIdx(s, keep) == SelectSeq([i \in 1..Len(s) |-> i], LAMBDA i : keep[i])

\* the column `feature` of a table
Column(tab) == [i \in 1..Len(tab) |-> tab[i].feature]

(* ------------------------------- inputs -------------------------------- *)
(* A row of a table: the studied column `feature` and one other column     *)
(* `other`, which the estimators never touch.  The caller's table has      *)
(* other = row number modulo 2, so that rows of one bin can get different  *)
(* predictions.                                                            *)
Tables ==
    UNION {[1..n -> Vals] : n \in 1..MaxRows}

MakeTable(col) == [i \in 1..Len(col) |-> [feature |-> col[i], other |-> i % 2]]

(* A model is any predictor: one shape of response per value of `other`.   *)
Shapes == {"const", "ident", "step", "square"}

Models == [0..1 -> Shapes]

Response(shape, v) ==
    CASE shape = "const"  -> 1
      [] shape = "ident"  -> v
      [] shape = "step"   -> IF v >= 1 THEN 1 ELSE 0
      [] shape = "square" -> v * v

\* model.predict(table): one prediction per row, in row order
predict(m, tab) == [i \in 1..Len(tab) |-> Response(m[tab[i].other], tab[i].feature)]

ConstantModel(m) == \A z \in 0..1 : m[z] = "const"

IdentityModel(m) == \A z \in 0..1 : m[z] = "ident"

(* ----------------------- Python / numpy / pandas ----------------------- *)
\* seq[i] with Python's indexing: 0-based, negative indices count from the end
InRange(s, i) == -Len(s) <= i /\ i < Len(s)

PyIndex(s, i) == IF i >= 0 THEN s[i + 1] ELSE s[Len(s) + i + 1]

\* variant: no copy, the local name is bound to the caller's object
DataFrame_alias(src, fresh) == src

\* DataFrame.copy(): a new object `fresh`, distinct from `src`
DataFrame_copy(src, fresh) == fresh

\* df[feature] = values
SetColumn(tab, values) == [i \in 1..Len(tab) |-> [tab[i] EXCEPT !.feature = values[i]]]

\* rows of a table sorted by key (sort_index); keys are unique
RECURSIVE sort_index(_)
sort_index(df) ==
    IF df = <<>> THEN <<>>
    ELSE LET m == Min({df[i].key : i \in 1..Len(df)})
             i == CHOOSE j \in 1..Len(df) : df[j].key = m
         IN  <<df[i]>> \o sort_index(SubSeq(df, 1, i - 1) \o SubSeq(df, i + 1, Len(df)))

Keys(df) == {df[i].key : i \in 1..Len(df)}

Row(df, k) == df[CHOOSE i \in 1..Len(df) : df[i].key = k]

\* Series.cumsum() over column eff, in row order
RECURSIVE cumsum(_)
cumsum(df) ==
    IF df = <<>> THEN <<>>
    ELSE LET head == cumsum(SubSeq(df, 1, Len(df) - 1))
             prev == IF head = <<>> THEN Zero ELSE head[Len(head)].eff
             last == df[Len(df)]
         IN  Append(head, [last EXCEPT !.eff = RAdd(prev, last.eff)])

(* The quantile provider (src.lib.quantile_ied): the type 1 quantile of R, *)
(* the inverse of the empirical distribution function, at p = k/grid_size: *)
(* the order statistic of rank ceil(n * p), and the minimum at p = 0.      *)
quantile_ied(col, k, grid_size) ==
    LET n    == Len(col)
        rank == (n * k + grid_size - 1) \div grid_size
    IN  SortValues(col)[IF rank = 0 THEN 1 ELSE rank]

\* lines 30-34: the minimum and the quantiles at 0, 1/g, ..., 1, deduplicated and sorted
ComputeBins(col, grid_size) ==
    SortedSeq({Min(Range(col))} \cup {quantile_ied(col, k, grid_size) : k \in 0..grid_size})

(* pd.cut(x, bins, include_lowest=True).cat.codes for one value: intervals *)
(* (bins[i], bins[i+1]], the first closed on the left; -1 when x is in no  *)
(* interval, which is every x when bins holds a single edge.               *)
cut_code(x, bins) ==
    LET below == Cardinality({j \in 1..Len(bins) : bins[j] < x})
        ids   == IF x = bins[1] THEN 1 ELSE below
    IN  IF ids = Len(bins) \/ ids = 0 THEN -1 ELSE ids - 1

cut_codes(col, bins) == [i \in 1..Len(col) |-> cut_code(col[i], bins)]

(* ------------------- aleplot_1D_continuous, lines 30-68 ---------------- *)
\* variant: the difference taken the wrong way round, y_1 - y_2
delta_df_swapped(bins, codes, y1, y2) ==
    [i \in 1..Len(codes) |-> [key |-> PyIndex(bins, codes[i] + 1), Delta |-> y1[i] - y2[i]]]

\* line 47: one row per observation, keyed by the upper edge of its bin
delta_df_continuous(bins, codes, y1, y2) ==
    [i \in 1..Len(codes) |-> [key |-> PyIndex(bins, codes[i] + 1), Delta |-> y2[i] - y1[i]]]

\* the Delta values of the rows of one key, in row order
GroupDeltas(ddf, k) ==
    LET idx == SelectSeq([i \in 1..Len(ddf) |-> i], LAMBDA i : ddf[i].key = k)
    IN  [j \in 1..Len(idx) |-> Q(ddf[idx[j]].Delta)]

mean(deltas) == RDiv(RSum(deltas), Q(Len(deltas)))

\* line 48: groupby(feature).Delta.agg(["size", ("eff", "mean")]), keys ascending
groupby_size_mean(ddf) ==
    LET ks == SortedSeq(Keys(ddf))
    IN  [j \in 1..Len(ks) |->
            [key  |-> ks[j],
             size |-> Len(GroupDeltas(ddf, ks[j])),
             eff  |-> mean(GroupDeltas(ddf, ks[j]))]]

\* line 50: res_df.loc[k, :] = 0 overwrites the row of key k, or appends a new last row
loc_set_zero(df, k) ==
    LET zero == [key |-> k, size |-> 0, eff |-> Zero]
    IN  IF k \in Keys(df)
        THEN [i \in 1..Len(df) |-> IF df[i].key = k THEN zero ELSE df[i]]
        ELSE Append(df, zero)

\* variant: the plain size-weighted mean of eff, without the moving average
mean_plain(df) ==
    RDiv(RSum([i \in 1..Len(df) |-> RMul(df[i].eff, Q(df[i].size))]),
         Q(ISum([i \in 1..Len(df) |-> df[i].size])))

\* lines 52-54: eff.shift(1, fill_value=0) is positional, in the current row order
mean_mv_avg(df) ==
    LET shifted(i) == IF i = 1 THEN Zero ELSE df[i - 1].eff
        term(i)    == RMul(RDiv(RAdd(df[i].eff, shifted(i)), Q(2)), Q(df[i].size))
    IN  RDiv(RSum([i \in 1..Len(df) |-> term(i)]),
             Q(ISum([i \in 1..Len(df) |-> df[i].size])))

\* line 55: sort_index().assign(eff = eff - mean_mv_avg), aligned on the key
center_continuous(df) ==
    LET c == mean_mv_avg(df)
        s == sort_index(df)
    IN  [i \in 1..Len(s) |-> [s[i] EXCEPT !.eff = RSub(Row(df, s[i].key).eff, c)]]

\* variant: half-widths matched to rows by position instead of by key
attach_CI_positional(df, ci) ==
    LET ks == SortedSeq(DOMAIN ci)
    IN  [i \in 1..Len(df) |->
            LET h == IF i <= Len(ks) THEN ci[ks[i]] ELSE NaN
            IN  [key     |-> df[i].key,
                 size    |-> df[i].size,
                 eff     |-> df[i].eff,
                 lowerCI |-> RSub(df[i].eff, h),
                 upperCI |-> RAdd(df[i].eff, h)]]

(* lines 64-67: eff -/+ ci_est aligned on the key (axis=0); a row whose    *)
(* key has no half-width gets NaN.                                         *)
attach_CI(df, ci) ==
    [i \in 1..Len(df) |->
        LET h == IF df[i].key \in DOMAIN ci THEN ci[df[i].key] ELSE NaN
        IN  [key     |-> df[i].key,
             size    |-> df[i].size,
             eff     |-> df[i].eff,
             lowerCI |-> RSub(df[i].eff, h),
             upperCI |-> RAdd(df[i].eff, h)]]

(* The confidence-interval provider (src.lib.CI_estimate) is external: any  *)
(* half-width in 0..MaxHalfWidth, or NaN (its answer for a sample whose    *)
(* standard error is undefined).                                           *)
HalfWidths == {Q(h) : h \in 0..MaxHalfWidth} \cup {NaN}

(* -------------------- aleplot_1D_discrete, lines 87-127 ---------------- *)
\* lines 87-88: the sorted distinct values
unique_sorted(col) == SortedSeq(Range(col))

\* lines 91-92: X.groupby(feature).size() / sum, keyed by the feature value
groups_props_of(col) ==
    [v \in Range(col) |-> RDiv(Q(Cardinality({i \in 1..Len(col) : col[i] = v})), Q(Len(col)))]

\* line 100: all groups except the last one
ind_plus_of(col, groups) == [i \in 1..Len(col) |-> col[i] < PyIndex(groups, Len(groups) - 1)]

\* line 102: all groups except the first one
ind_neg_of(col, groups) == [i \in 1..Len(col) |-> col[i] > PyIndex(groups, 0)]

\* lines 104 and 106 index `groups` by the feature VALUE plus (minus) one:
\* IndexError when a selected row's value plus `step` is no index of `groups`
index_error(col, ind, groups, step) ==
    \E i \in 1..Len(col) : ind[i] /\ ~InRange(groups, col[i] + step)

\* line 104: X_plus.loc[ind_plus, feature] = groups[X.loc[ind_plus, feature] + 1]
replace_plus(tab, col, ind, groups) ==
    [i \in 1..Len(tab) |->
        IF ind[i]
        THEN [tab[i] EXCEPT !.feature = PyIndex(groups, col[i] + 1)]
        ELSE tab[i]]

\* line 106: X_neg.loc[ind_neg, feature] = groups[X.loc[ind_neg, feature] - 1]
replace_neg(tab, col, ind, groups) ==
    [i \in 1..Len(tab) |->
        IF ind[i]
        THEN [tab[i] EXCEPT !.feature = PyIndex(groups, col[i] - 1)]
        ELSE tab[i]]

\* df[ind]: the rows selected by a boolean mask, a new table
Subset(tab, ind) ==
    LET idx == SelectIdx(tab, ind)
    IN  [j \in 1..Len(idx) |-> tab[idx[j]]]

\* lines 112-121: forward deltas keyed by value + 1, backward deltas by the value
delta_df_discrete(col, indp, indn, yh, yp, yn) ==
    LET ip == SelectIdx(col, indp)
        in == SelectIdx(col, indn)
    IN  [j \in 1..Len(ip) |-> [key |-> col[ip[j]] + 1, Delta |-> yp[j] - yh[ip[j]]]]
        \o [j \in 1..Len(in) |-> [key |-> col[in[j]], Delta |-> yh[in[j]] - yn[j]]]

\* lines 122-123: groupby(feature).mean(), then eff = Delta.cumsum()
groupby_mean_cumsum(ddf) ==
    LET ks == SortedSeq(Keys(ddf))
    IN  cumsum([j \in 1..Len(ks) |->
                   [key   |-> ks[j],
                    Delta |-> mean(GroupDeltas(ddf, ks[j])),
                    eff   |-> mean(GroupDeltas(ddf, ks[j]))]])

\* line 124: res_df.loc[0] = 0 overwrites the row of key 0, or appends a new last row
loc0_set_zero(df) ==
    LET zero == [key |-> 0, Delta |-> Zero, eff |-> Zero]
    IN  IF 0 \in Keys(df)
        THEN [i \in 1..Len(df) |-> IF df[i].key = 0 THEN zero ELSE df[i]]
        ELSE Append(df, zero)

\* variant: the plain mean of eff over the rows, ignoring the proportions
unweighted_mean(df, props) ==
    RDiv(RSum([i \in 1..Len(df) |-> df[i].eff]), Q(Len(df)))

(* line 126: sum(res_df["eff"] * groups_props).  The product aligns the    *)
(* two series on the union of their keys and is NaN at a key either lacks; *)
(* the builtin sum does not skip NaN.                                      *)
weighted_sum(df, props) ==
    LET ks      == SortedSeq(Keys(df) \cup DOMAIN props)
        prod(k) == IF k \in Keys(df) /\ k \in DOMAIN props
                   THEN RMul(Row(df, k).eff, props[k])
                   ELSE NaN
    IN  RSum([j \in 1..Len(ks) |-> prod(ks[j])])

center_discrete(df, props) ==
    LET c == weighted_sum(df, props)
    IN  [i \in 1..Len(df) |-> [df[i] EXCEPT !.eff = RSub(df[i].eff, c)]]

(* ------------------------------- state --------------------------------- *)
VARIABLES
    fn,          \* the estimator called
    model,       \* the model argument
    grid_size,   \* argument of aleplot_1D_continuous
    include_CI,  \* argument of aleplot_1D_continuous
    pc,          \* position in the function body
    frames,      \* the data frame objects: X is the caller's table
    refs,        \* the object each local name X1, X2, X_plus, X_neg is bound to
    X_before,    \* the content of the caller's table when the call started
    calls,       \* the tables handed to model.predict, in call order
    bins,        \* local of aleplot_1D_continuous
    bin_codes,   \* local of aleplot_1D_continuous
    groups,      \* local of aleplot_1D_discrete
    y,           \* the prediction vectors y_1, y_2, y_hat, y_hat_plus, y_hat_neg
    res_df,      \* the result table being built
    ci_est,      \* half-width per bin key, from the confidence-interval provider
    outcome      \* "running", "returned" or the exception raised

vars == <<fn, model, grid_size, include_CI, pc, frames, refs, X_before, calls,
          bins, bin_codes, groups, y, res_df, ci_est, outcome>>

NoFrames == [X |-> <<>>, X1 |-> <<>>, X2 |-> <<>>, X_plus |-> <<>>, X_neg |-> <<>>]

NoRefs == [X1 |-> "unbound", X2 |-> "unbound", X_plus |-> "unbound", X_neg |-> "unbound"]

NoY == [y_1 |-> <<>>, y_2 |-> <<>>, y_hat |-> <<>>, y_hat_plus |-> <<>>, y_hat_neg |-> <<>>]

Init ==
    /\ \/ /\ fn = "aleplot_1D_continuous"
          /\ grid_size \in 1..MaxGrid
          /\ include_CI \in BOOLEAN
       \/ /\ fn = "aleplot_1D_discrete"
          /\ grid_size = 1
          /\ include_CI = FALSE
    /\ model \in Models
    /\ X_before \in {MakeTable(col) : col \in Tables}
    /\ frames = [NoFrames EXCEPT !.X = X_before]
    /\ refs = NoRefs
    /\ pc = "start"
    /\ calls = <<>>
    /\ bins = <<>>
    /\ bin_codes = <<>>
    /\ groups = <<>>
    /\ y = NoY
    /\ res_df = <<>>
    /\ ci_est = <<>>
    /\ outcome = "running"

args == <<fn, model, grid_size, include_CI, X_before>>

(* ----------------------- aleplot_1D_continuous ------------------------- *)
\* lines 30-38
C_Bins ==
    /\ fn = "aleplot_1D_continuous" /\ pc = "start"
    /\ bins' = ComputeBins(Column(frames.X), grid_size)
    /\ bin_codes' = cut_codes(Column(frames.X), bins')
    /\ pc' = "copy"
    /\ UNCHANGED <<args, frames, refs, calls, groups, y, res_df, ci_est, outcome>>

\* lines 40-43: both copies are taken before either column is replaced
C_Perturb ==
    /\ fn = "aleplot_1D_continuous" /\ pc = "copy"
    /\ LET x1 == DataFrame_copy("X", "X1")
           x2 == DataFrame_copy("X", "X2")
           f0 == [frames EXCEPT ![x1] = frames.X, ![x2] = frames.X]
           f1 == [f0 EXCEPT ![x1] = SetColumn(f0[x1],
                     [i \in 1..Len(bin_codes) |-> PyIndex(bins, bin_codes[i])])]
           f2 == [f1 EXCEPT ![x2] = SetColumn(f1[x2],
                     [i \in 1..Len(bin_codes) |-> PyIndex(bins, bin_codes[i] + 1)])]
       IN  /\ refs' = [refs EXCEPT !.X1 = x1, !.X2 = x2]
           /\ frames' = f2
    /\ pc' = "predict_1"
    /\ UNCHANGED <<args, calls, bins, bin_codes, groups, y, res_df, ci_est, outcome>>

\* line 44
C_Predict1 ==
    /\ fn = "aleplot_1D_continuous" /\ pc = "predict_1"
    /\ y' = [y EXCEPT !.y_1 = predict(model, frames[refs.X1])]
    /\ calls' = Append(calls, [frame |-> refs.X1, table |-> frames[refs.X1]])
    /\ pc' = "predict_2"
    /\ UNCHANGED <<args, frames, refs, bins, bin_codes, groups, res_df, ci_est, outcome>>

\* line 45
C_Predict2 ==
    /\ fn = "aleplot_1D_continuous" /\ pc = "predict_2"
    /\ y' = [y EXCEPT !.y_2 = predict(model, frames[refs.X2])]
    /\ calls' = Append(calls, [frame |-> refs.X2, table |-> frames[refs.X2]])
    /\ pc' = "aggregate"
    /\ UNCHANGED <<args, frames, refs, bins, bin_codes, groups, res_df, ci_est, outcome>>

delta_df == delta_df_continuous(bins, bin_codes, y.y_1, y.y_2)

\* lines 47-50
C_Aggregate ==
    /\ fn = "aleplot_1D_continuous" /\ pc = "aggregate"
    /\ res_df' = loc_set_zero(cumsum(groupby_size_mean(delta_df)), Min(Range(bins)))
    /\ pc' = "center"
    /\ UNCHANGED <<args, frames, refs, calls, bins, bin_codes, groups, y, ci_est, outcome>>

\* lines 52-56, and line 68 when include_CI is false
C_Center ==
    /\ fn = "aleplot_1D_continuous" /\ pc = "center"
    /\ res_df' = center_continuous(res_df)
    /\ pc' = IF include_CI THEN "ci" ELSE "done"
    /\ outcome' = IF include_CI THEN outcome ELSE "returned"
    /\ UNCHANGED <<args, frames, refs, calls, bins, bin_codes, groups, y, ci_est>>

\* lines 57-68: one half-width per group of delta_df
C_CI ==
    /\ fn = "aleplot_1D_continuous" /\ pc = "ci"
    /\ ci_est' \in [Keys(delta_df) -> HalfWidths]
    /\ res_df' = attach_CI(res_df, ci_est')
    /\ pc' = "done"
    /\ outcome' = "returned"
    /\ UNCHANGED <<args, frames, refs, calls, bins, bin_codes, groups, y>>

(* ------------------------ aleplot_1D_discrete -------------------------- *)
\* lines 87-94
D_Groups ==
    /\ fn = "aleplot_1D_discrete" /\ pc = "start"
    /\ groups' = unique_sorted(Column(frames.X))
    /\ pc' = "copy"
    /\ UNCHANGED <<args, frames, refs, calls, bins, bin_codes, y, res_df, ci_est, outcome>>

groups_props == groups_props_of(Column(X_before))

\* line 100, evaluated on X as it is at that line
ind_plus == ind_plus_of(Column(X_before), groups)

\* line 102, evaluated on X as it is at that line
ind_neg == ind_neg_of(Column(X_before), groups)

\* lines 97-106: an index outside `groups` raises IndexError before any prediction
D_Perturb ==
    /\ fn = "aleplot_1D_discrete" /\ pc = "copy"
    /\ LET xp   == DataFrame_copy("X", "X_plus")
           xn   == DataFrame_copy("X", "X_neg")
           f0   == [frames EXCEPT ![xp] = frames.X, ![xn] = frames.X]
           f1   == [f0 EXCEPT ![xp] = replace_plus(f0[xp], Column(f0.X), ind_plus, groups)]
           f2   == [f1 EXCEPT ![xn] = replace_neg(f1[xn], Column(f1.X), ind_neg, groups)]
           err1 == index_error(Column(f0.X), ind_plus, groups, 1)
           err2 == index_error(Column(f1.X), ind_neg, groups, -1)
       IN  /\ refs' = [refs EXCEPT !.X_plus = xp, !.X_neg = xn]
           /\ frames' = IF err1 THEN f0 ELSE IF err2 THEN f1 ELSE f2
           /\ outcome' = IF err1 \/ err2 THEN "IndexError" ELSE outcome
           /\ pc' = IF err1 \/ err2 THEN "done" ELSE "predict"
    /\ UNCHANGED <<args, calls, bins, bin_codes, groups, y, res_df, ci_est>>

\* line 108
D_Predict ==
    /\ fn = "aleplot_1D_discrete" /\ pc = "predict"
    /\ y' = [y EXCEPT !.y_hat = predict(model, frames.X)]
    /\ calls' = Append(calls, [frame |-> "X", table |-> frames.X])
    /\ pc' = "predict_plus"
    /\ UNCHANGED <<args, frames, refs, bins, bin_codes, groups, res_df, ci_est, outcome>>

\* line 109
D_PredictPlus ==
    /\ fn = "aleplot_1D_discrete" /\ pc = "predict_plus"
    /\ LET sub == Subset(frames[refs.X_plus], ind_plus)
       IN  /\ y' = [y EXCEPT !.y_hat_plus = predict(model, sub)]
           /\ calls' = Append(calls, [frame |-> "X_plus[ind_plus]", table |-> sub])
    /\ pc' = "predict_neg"
    /\ UNCHANGED <<args, frames, refs, bins, bin_codes, groups, res_df, ci_est, outcome>>

\* line 110
D_PredictNeg ==
    /\ fn = "aleplot_1D_discrete" /\ pc = "predict_neg"
    /\ LET sub == Subset(frames[refs.X_neg], ind_neg)
       IN  /\ y' = [y EXCEPT !.y_hat_neg = predict(model, sub)]
           /\ calls' = Append(calls, [frame |-> "X_neg[ind_neg]", table |-> sub])
    /\ pc' = "aggregate"
    /\ UNCHANGED <<args, frames, refs, bins, bin_codes, groups, res_df, ci_est, outcome>>

\* lines 112-125
D_Aggregate ==
    /\ fn = "aleplot_1D_discrete" /\ pc = "aggregate"
    /\ res_df' = sort_index(loc0_set_zero(groupby_mean_cumsum(
                     delta_df_discrete(Column(frames.X), ind_plus, ind_neg,
                                       y.y_hat, y.y_hat_plus, y.y_hat_neg))))
    /\ pc' = "center"
    /\ UNCHANGED <<args, frames, refs, calls, bins, bin_codes, groups, y, ci_est, outcome>>

\* lines 126-127
D_Center ==
    /\ fn = "aleplot_1D_discrete" /\ pc = "center"
    /\ res_df' = center_discrete(res_df, groups_props)
    /\ pc' = "done"
    /\ outcome' = "returned"
    /\ UNCHANGED <<args, frames, refs, calls, bins, bin_codes, groups, y, ci_est>>

Next ==
    \/ C_Bins
    \/ C_Perturb
    \/ C_Predict1
    \/ C_Predict2
    \/ C_Aggregate
    \/ C_Center
    \/ C_CI
    \/ D_Groups
    \/ D_Perturb
    \/ D_Predict
    \/ D_PredictPlus
    \/ D_PredictNeg
    \/ D_Aggregate
    \/ D_Center

Spec == Init /\ [][Next]_vars

(* ------------------------------ properties ----------------------------- *)
Continuous == fn = "aleplot_1D_continuous"

Discrete == fn = "aleplot_1D_discrete"

Done == pc = "done"

Returned == pc = "done" /\ outcome = "returned"

\* the values of the studied feature in the caller's table
Levels == Range(Column(X_before))

NLevels == Cardinality(Levels)

EffAllZero == \A i \in 1..Len(res_df) : res_df[i].eff = Zero

StrictlyAscending == \A i \in 2..Len(res_df) : res_df[i - 1].key < res_df[i].key

\* sum over the non-anchor rows i of size[i] * (eff[i] + eff[i-1]) / 2, rows ascending
MovingAverageSum ==
    RSum([j \in 1..(Len(res_df) - 1) |->
            RMul(Q(res_df[j + 1].size),
                 RDiv(RAdd(res_df[j + 1].eff, res_df[j].eff), Q(2)))])

(* C1: for a continuous feature with at least 2 distinct values, the       *)
(* returned table, rows ascending by key, has size-weighted sum of the     *)
(* two-point moving average of eff equal to 0.                             *)
C1_MovingAverageCentered ==
    (Returned /\ Continuous /\ NLevels >= 2)
        => (StrictlyAscending /\ MovingAverageSum = Zero)

\* a returned continuous table with two bins of different sizes and a nonzero effect
C1_Witness ==
    /\ Returned /\ Continuous /\ NLevels >= 2
    /\ Len(res_df) = 3
    /\ res_df[2].size # res_df[3].size
    /\ res_df[3].eff # res_df[2].eff
    /\ res_df[2].eff # Zero

\* the keys of the rows the group-by produced
GroupKeys ==
    IF Continuous
    THEN Keys(delta_df)
    ELSE Keys(delta_df_discrete(Column(frames.X), ind_plus, ind_neg,
                                y.y_hat, y.y_hat_plus, y.y_hat_neg))

AnchorKey == IF Continuous THEN Min(Levels) ELSE 0

(* C2: for every valid input (at least 2 distinct values) the table either *)
(* estimator returns is sorted strictly ascending by key, and the anchor   *)
(* row (minimum edge, resp. key 0) is not a row of the group-by and comes  *)
(* first.                                                                  *)
C2_SortedAnchorFirst ==
    (Returned /\ NLevels >= 2)
        => /\ StrictlyAscending
           /\ AnchorKey \notin GroupKeys
           /\ Len(res_df) = Cardinality(GroupKeys) + 1
           /\ res_df[1].key = AnchorKey

(* C3: with a model that predicts the same constant for every row, every   *)
(* eff of the table either estimator returns for a valid input is 0.       *)
C3_ConstantModelZeroEffect ==
    (Returned /\ NLevels >= 2 /\ ConstantModel(model)) => EffAllZero

C5_DegenerateGridError ==
    (Done /\ Continuous /\ NLevels = 1)
        => (outcome = "DegenerateGridError" /\ calls = <<>> /\ res_df = <<>>)

(* C6: a discrete feature with exactly one distinct value makes the call   *)
(* fail with InvalidFeatureError and return no table.                      *)
C6_InvalidFeatureError ==
    (Done /\ Discrete /\ NLevels = 1)
        => (outcome = "InvalidFeatureError" /\ res_df = <<>>)

\* a bin is an interval between two consecutive edges; its row is keyed by its upper edge
BinKeys == {bins[j] : j \in 2..Len(bins)}

(* C7: with include_CI, every bin whose half-width h from the provider is  *)
(* a non-negative number has, in its own row, lowerCI = eff - h and        *)
(* upperCI = eff + h for the centered eff of that row, hence               *)
(* lowerCI <= eff <= upperCI.                                              *)
C7_ConfidenceInterval ==
    (Returned /\ Continuous /\ include_CI)
        => \A k \in BinKeys :
              /\ k \in Keys(res_df) /\ k \in DOMAIN ci_est
              /\ ~IsNaN(ci_est[k]) =>
                    /\ Row(res_df, k).lowerCI = RSub(Row(res_df, k).eff, ci_est[k])
                    /\ Row(res_df, k).upperCI = RAdd(Row(res_df, k).eff, ci_est[k])
                    /\ RLe(Row(res_df, k).lowerCI, Row(res_df, k).eff)
                    /\ RLe(Row(res_df, k).eff, Row(res_df, k).upperCI)

\* two bins with different positive half-widths, one of them holding 2 observations
C7_Witness ==
    /\ Returned /\ Continuous /\ include_CI
    /\ Len(bins) = 3
    /\ ~IsNaN(ci_est[bins[2]]) /\ ~IsNaN(ci_est[bins[3]])
    /\ ci_est[bins[2]] # ci_est[bins[3]]
    /\ \E k \in BinKeys : Row(res_df, k).size >= 2 /\ RLt(Row(res_df, k).lowerCI, Row(res_df, k).eff)

\* the fraction of the rows of X whose feature value is k
Proportion(k) ==
    RDiv(Q(Cardinality({i \in 1..Len(X_before) : X_before[i].feature = k})), Q(Len(X_before)))

DenseLevels == Levels = 0..(NLevels - 1)

(* C8: for a discrete feature whose levels are 0..K-1, K >= 2, the         *)
(* returned table has a row for every level and the sum over the levels k  *)
(* of eff[k] * props[k] is 0.                                              *)
C8_WeightedMeanZero ==
    (Returned /\ Discrete /\ NLevels >= 2 /\ DenseLevels)
        => /\ Keys(res_df) = Levels
           /\ LET ks == SortedSeq(Levels)
              IN  RSum([j \in 1..Len(ks) |->
                          RMul(Row(res_df, ks[j]).eff, Proportion(ks[j]))]) = Zero

\* levels 0..K-1 with unequal proportions and a nonzero effect
C8_Witness ==
    /\ Returned /\ Discrete /\ NLevels >= 2 /\ DenseLevels
    /\ Proportion(0) # Proportion(1)
    /\ \E i \in 1..Len(res_df) : res_df[i].eff # Zero /\ ~IsNaN(res_df[i].eff)

(* C9: the caller's table X holds, at every point of either call, the      *)
(* values it held before the call, and the model is never handed X with a  *)
(* replaced column.                                                        *)
C9_CallerTableUnchanged ==
    /\ frames.X = X_before
    /\ \A i \in 1..Len(calls) : calls[i].frame = "X" => calls[i].table = X_before

\* a finished discrete call whose copy X_plus carries replaced values
C9_Witness ==
    /\ Returned /\ Discrete
    /\ refs.X_plus # "unbound"
    /\ frames[refs.X_plus] # X_before
    /\ Len(calls) = 3

NextHigher(v) == Min({w \in Levels : w > v})

NextLower(v) == Max({w \in Levels : w < v})

\* X with the rows below the maximum level moved one level up, those rows only
ExpectedPlus ==
    LET idx == SelectSeq([i \in 1..Len(X_before) |-> i],
                         LAMBDA i : X_before[i].feature # Max(Levels))
    IN  [j \in 1..Len(idx) |->
            [X_before[idx[j]] EXCEPT !.feature = NextHigher(X_before[idx[j]].feature)]]

\* X with the rows above the minimum level moved one level down, those rows only
ExpectedNeg ==
    LET idx == SelectSeq([i \in 1..Len(X_before) |-> i],
                         LAMBDA i : X_before[i].feature # Min(Levels))
    IN  [j \in 1..Len(idx) |->
            [X_before[idx[j]] EXCEPT !.feature = NextLower(X_before[idx[j]].feature)]]

(* C10: for every integer feature with K >= 2 distinct values the discrete *)
(* call completes without IndexError, hands the model the rows below the   *)
(* maximum level with the next-higher level and the rows above the minimum *)
(* level with the next-lower level, and returns one row per level.         *)
C10_NeighbourLevels ==
    (Done /\ Discrete /\ NLevels >= 2)
        => /\ outcome = "returned"
           /\ Len(calls) = 3
           /\ calls[2].table = ExpectedPlus
           /\ calls[3].table = ExpectedNeg
           /\ Len(res_df) = NLevels

====
